---------------------------- MODULE Spec2Model ----------------------------
(***************************************************************************)
(* The tool-calling conversation loop of LLM-Agent: main.py's interactive  *)
(* shell, LLMExecutor.process_user_input / execute_function, and the       *)
(* file-writing tools of utils.py.  The remote chat-completion endpoint    *)
(* and the user are the environment: their replies and inputs are drawn    *)
(* from small sets.                                                        *)
(***************************************************************************)
EXTENDS Integers, Sequences, FiniteSets, TLC

\* ------------------------------------------------------------------ bounds
MaxK == 2
MaxCalls == 2
MaxTurns == 2
MaxTime == 2
MaxFibN == 14

\* datetime.now().strftime("%Y%m%d_%H%M%S") keeps whole seconds only; the
\* model's clock counts half seconds.
TicksPerSecond == 2

\* Requests one invocation may send before the environment stops answering;
\* the loop itself sends at most max_iterations + 1.
MaxRequests == MaxK + 2

\* --------------------------------------------------------------- constants
NoneVal == "<None>"
NoId == <<0, 0>>

SystemPrompt == "You are a helpful AI assistant ..."

\* What the user may type at the prompt.
ShellInputs == {"quit", "QUIT", "  ", "plot it "}

\* Text content a model reply may carry.
ReplyContents == {NoneVal, "", "partial"}

\* Function names a model reply may ask for: a file-writing tool, a tool
\* whose call raises, and a name that is no function of utils.
RequestedNames == {"draw_sine_wave", "calculate_average", "no_such_tool"}

VARIABLES
    api_key,              \* main: os.getenv("OPENAI_API_KEY"), None when unset
    shell,                \* main: "start", "printed", "prompt", "turn", "exited"
    lastPrint,            \* main: the last line printed
    max_iterations,       \* LLMExecutor.max_iterations
    available_functions,  \* LLMExecutor.available_functions (its keys)
    turn,                 \* number of process_user_input invocations so far
    user_input,           \* main: user_input of the current turn
    pc,                   \* position inside process_user_input
    messages,             \* process_user_input: messages
    iteration_count,      \* process_user_input: iteration_count
    message,              \* process_user_input: message (Unbound before the loop)
    tool_results,         \* process_user_input: tool_results
    idx,                  \* process_user_input: position of the for loop
    outcome,              \* how process_user_input ended: value returned / raised
    files,                \* the files of IMAGES_DIR
    now,                  \* the wall clock, in ticks
    sent,                 \* history: the remote requests of this invocation
    received,             \* history: the replies to the tool-enabled requests
    executed,             \* history: ids passed to execute_function
    invoked,              \* history: names whose function body was entered
    filesAtStart,         \* history: files when the invocation began
    stdin_eof,            \* main: the input stream is exhausted, input() raises
    fib_pc,               \* fibonacci: position inside the function
    fib_n,                \* fibonacci: n
    sequence,             \* fibonacci: sequence
    fib_result            \* fibonacci: the list returned

vars == <<api_key, shell, lastPrint, max_iterations, available_functions, turn,
          user_input, pc, messages, iteration_count, message, tool_results, idx,
          outcome, files, now, sent, received, executed, invoked, filesAtStart,
          stdin_eof, fib_pc, fib_n, sequence, fib_result>>

shellVars == <<api_key, shell, lastPrint, max_iterations, available_functions,
               turn, user_input, stdin_eof>>
fibVars == <<fib_pc, fib_n, sequence, fib_result>>
histVars == <<sent, received, executed, invoked, filesAtStart>>

\* ----------------------------------------------------------------- helpers
Range(s) == {s[i] : i \in 1..Len(s)}

RECURSIVE Flatten(_)
Flatten(ss) == IF ss = <<>> THEN <<>> ELSE Head(ss) \o Flatten(Tail(ss))

SeqsUpTo(S, n) == UNION {[1..k -> S] : k \in 0..n}

\* str.strip() and str.lower() on the inputs of the model.
Strip(s) ==
    CASE s = "  " -> ""
      [] s = "plot it " -> "plot it"
      [] OTHER -> s

\* Mutant: the comparison with 'quit' keeps the letter case.
LowerKeepsCase(s) == s

Lower(s) ==
    CASE s = "QUIT" -> "quit"
      [] OTHER -> s

\* A conversation message; the keys a Python message lacks hold a default.
Msg(role, content, calls, id, name) ==
    [role |-> role, content |-> content, tool_calls |-> calls,
     tool_call_id |-> id, name |-> name]

Unbound == [bound |-> FALSE, content |-> NoneVal, tool_calls |-> <<>>]

NoOutcome == [kind |-> "none", tag |-> "", line |-> 0, k |-> 0, text |-> ""]
Returned(tag, line, k, text) ==
    [kind |-> "return", tag |-> tag, line |-> line, k |-> k, text |-> text]
Raised(tag, line) ==
    [kind |-> "raise", tag |-> tag, line |-> line, k |-> 0, text |-> ""]

\* ------------------------------------------------------------------- utils
UtilsFunctions ==
    {"save_base64_image", "calculate_average", "draw_sine_wave",
     "generate_color_gradient", "list_generated_images",
     "clear_generated_images", "fibonacci", "text_statistics"}

\* save_base64_image: the path the image is written to.
SaveBase64Image(prefix, t) ==
    "generated_images/" \o prefix \o "_" \o ToString(t \div TicksPerSecond) \o ".png"

\* A parameter of a signature, as inspect.signature reports it.
Param(name, kind, hasDefault) ==
    [name |-> name, kind |-> kind, hasDefault |-> hasDefault]

\* The signatures of the functions of utils.
Signature(name) ==
    CASE name = "save_base64_image" ->
           <<Param("base64_str", "POSITIONAL_OR_KEYWORD", FALSE),
             Param("prefix", "POSITIONAL_OR_KEYWORD", TRUE)>>
      [] name = "calculate_average" ->
           <<Param("numbers", "VAR_POSITIONAL", FALSE)>>
      [] name = "draw_sine_wave" ->
           <<Param("amplitude", "POSITIONAL_OR_KEYWORD", TRUE),
             Param("frequency", "POSITIONAL_OR_KEYWORD", TRUE)>>
      [] name = "generate_color_gradient" ->
           <<Param("start_color", "POSITIONAL_OR_KEYWORD", FALSE),
             Param("end_color", "POSITIONAL_OR_KEYWORD", FALSE),
             Param("width", "POSITIONAL_OR_KEYWORD", TRUE),
             Param("height", "POSITIONAL_OR_KEYWORD", TRUE)>>
      [] name = "fibonacci" ->
           <<Param("n", "POSITIONAL_OR_KEYWORD", FALSE)>>
      [] name = "text_statistics" ->
           <<Param("text", "POSITIONAL_OR_KEYWORD", FALSE)>>
      [] OTHER -> <<>>

\* _generate_function_descriptions, lines 51-66: the type a parameter is
\* advertised with.
SchemaType(p) == IF p.kind = "VAR_POSITIONAL" THEN "array" ELSE "object"

\* _generate_function_descriptions, line 72: the names advertised as
\* required are those of the parameters whose default is empty.
RequiredParams(name) ==
    {p.name : p \in {q \in Range(Signature(name)) : ~q.hasDefault}}

\* function(**kwargs), line 95: Python binds the keys to the parameters that
\* can be passed by keyword; a key that names none of them, or a missing
\* parameter without default, is a TypeError.  No function of utils takes
\* **kwargs, and a *args parameter cannot be passed by keyword.
BindsKwargs(name, keys) ==
    LET byKeyword == {p \in Range(Signature(name)) :
                         p.kind = "POSITIONAL_OR_KEYWORD"}
    IN /\ keys \subseteq {p.name : p \in byKeyword}
       /\ {p.name : p \in {q \in byKeyword : ~q.hasDefault}} \subseteq keys

\* The keys of the argument object of a tool call: the remote model follows
\* the schema it was given and passes the parameters advertised as required.
CallKeys(name) == RequiredParams(name)

\* function(**kwargs) for the names the model requests: what it raises ("" when
\* it returns), whether the body was entered, the string of its result, and
\* the files it leaves.
CallFunction(name, fs, t) ==
    IF ~BindsKwargs(name, CallKeys(name))
    THEN \* calculate_average(*numbers) called with numbers=[...]
         [raised |-> "TypeError", line |-> 101, invoked |-> FALSE,
          result |-> NoneVal, files |-> fs]
    ELSE IF name = "draw_sine_wave"
    THEN LET filepath == SaveBase64Image("sine_wave", t) IN
         [raised |-> "", line |-> 98, invoked |-> TRUE,
          result |-> "{'saved_path': '" \o filepath \o "'}",
          files |-> fs \cup {filepath}]
    ELSE [raised |-> "", line |-> 98, invoked |-> TRUE,
          result |-> NoneVal, files |-> fs]

\* ----------------------------------------------------------- LLMExecutor
\* _get_available_functions: the names of the functions of utils.
GetAvailableFunctions == UtilsFunctions

\* Mutant: an exception of the function is caught and rendered as a result.
ExecuteFunctionSwallows(name, fs, t) ==
    IF name \notin available_functions
    THEN [raised |-> "ValueError", line |-> 91, invoked |-> FALSE,
          result |-> NoneVal, files |-> fs]
    ELSE LET r == CallFunction(name, fs, t)
         IN IF r.raised = "" THEN r
            ELSE [raised |-> "", line |-> 98, invoked |-> TRUE,
                  result |-> "Error: " \o r.raised, files |-> r.files]

\* Mutant: a missing name falls back to a default function instead of failing.
ExecuteFunctionDefault(name, fs, t) ==
    IF name \notin available_functions
    THEN CallFunction("draw_sine_wave", fs, t)
    ELSE CallFunction(name, fs, t)

\* execute_function(function_name, **kwargs).
ExecuteFunction(name, fs, t) ==
    IF name \notin available_functions
    THEN [raised |-> "ValueError", line |-> 91, invoked |-> FALSE,
          result |-> NoneVal, files |-> fs]
    ELSE CallFunction(name, fs, t)

\* Mutant: the conversation is kept on the executor, so the user message of
\* the turn before is still in it.
InitialMessagesKept(input) ==
    << Msg("system", SystemPrompt, <<>>, NoId, "") >> \o
    (IF turn > 0 THEN << Msg("user", user_input, <<>>, NoId, "") >> ELSE <<>>) \o
    << Msg("user", input, <<>>, NoId, "") >>

\* messages = [system, user], lines 114-126.
InitialMessages(input) ==
    << Msg("system", SystemPrompt, <<>>, NoId, ""),
       Msg("user", input, <<>>, NoId, "") >>

\* Mutant: the loop runs once more than the budget.
LoopContinuesOneMore(i, k) == i <= k

\* while iteration_count < self.max_iterations
LoopContinues(i, k) == i < k

\* Mutant: the iteration is not counted.
NextIterationStuck(i) == i

\* iteration_count += 1
NextIteration(i) == i + 1

\* The messages one iteration appends: the assistant message recording the
\* calls, then one tool message per (tool_call, result) pair.
AssistantMessage(results) ==
    Msg("assistant", NoneVal, [i \in 1..Len(results) |-> results[i].call], NoId, "")

ToolMessage(tr) ==
    Msg("tool", tr.result, <<>>, tr.call.id, tr.call.name)

\* Mutant: the tool message is appended after the for loop, for the last
\* result only.
AppendedMessagesLastOnly(results) ==
    <<AssistantMessage(results)>> \o
    (IF results = <<>> THEN <<>> ELSE <<ToolMessage(results[Len(results)])>>)

\* Mutant: the results are appended newest first.
AppendedMessagesReversed(results) ==
    <<AssistantMessage(results)>> \o
    [i \in 1..Len(results) |-> ToolMessage(results[Len(results) + 1 - i])]

\* Mutant: the assistant message recording the calls is not appended.
AppendedMessagesToolsOnly(results) ==
    [i \in 1..Len(results) |-> ToolMessage(results[i])]

AppendedMessages(results) ==
    <<AssistantMessage(results)>> \o [i \in 1..Len(results) |-> ToolMessage(results[i])]

\* Mutant: only a missing content counts, as `message.content is None` would.
NoContentIsNone(m) == m.content = NoneVal

\* Mutant: the final answer is requested after every reply with tool calls.
NoContentAlways(m) == TRUE

\* if not message.content
NoContent(m) == m.content = NoneVal \/ m.content = ""

\* The budget-exceeded return value of line 204.
BudgetMessage(k, m) == Returned("budget", 204, k, m.content)

\* Every tool call received so far in this invocation, in order.
ReceivedCalls == Flatten([i \in 1..Len(received) |-> received[i].tool_calls])

\* Mutant: the test for a reply without tool calls never succeeds.
NoToolCallsNever(m) == FALSE

\* if not message.tool_calls
NoToolCalls(m) == m.tool_calls = <<>>

\* The tool calls of a reply: the environment numbers them, unique within
\* the session.
MakeCalls(names, base) ==
    [i \in 1..Len(names) |-> [id |-> <<turn, base + i>>, name |-> names[i]]]

Replies ==
    {[bound |-> TRUE, content |-> c,
      tool_calls |-> MakeCalls(ns, Len(ReceivedCalls))] :
        c \in ReplyContents, ns \in SeqsUpTo(RequestedNames, MaxCalls)}

Request(tools) == [messages |-> messages, tools |-> tools]

\* ------------------------------------------------------------------ Init
Init ==
    /\ api_key \in {NoneVal, "", "sk-key"}
    /\ shell = "start"
    /\ lastPrint = ""
    /\ max_iterations = 0
    /\ available_functions = {}
    /\ turn = 0
    /\ user_input = ""
    /\ pc = "idle"
    /\ messages = <<>>
    /\ iteration_count = 0
    /\ message = Unbound
    /\ tool_results = <<>>
    /\ idx = 0
    /\ outcome = NoOutcome
    /\ files = {}
    /\ now = 0
    /\ sent = <<>>
    /\ received = <<>>
    /\ executed = <<>>
    /\ invoked = <<>>
    /\ filesAtStart = {}
    /\ stdin_eof = FALSE
    /\ fib_pc = "idle"
    /\ fib_n = 0
    /\ sequence = <<>>
    /\ fib_result = <<>>

procVars == <<pc, messages, iteration_count, message, tool_results, idx, outcome>>

\* ------------------------------------------------------------------ main
\* Mutant: the credential test never fires.
MissingKeyNever(k) == FALSE

\* main, line 7: "not api_key" holds of None (the variable is unset) and of
\* the empty string.
MissingKey(k) == k \in {NoneVal, ""}

\* Mutant: the except clause catches nothing.
CaughtByExceptNever(tag) == FALSE

\* main, line 29: "except Exception" catches the instances of Exception, which
\* the errors of a turn and of input() all are.
ExceptionClasses ==
    {"ValueError", "TypeError", "APIError", "UnboundLocalError", "EOFError"}
CaughtByExcept(tag) == tag \in ExceptionClasses

\* main, lines 6-9: no credential.
StartupNoKey ==
    /\ shell = "start"
    /\ MissingKey(api_key)
    /\ lastPrint' = "Error: Please set your OPENAI_API_KEY environment variable"
    /\ shell' = "exited"
    /\ UNCHANGED <<api_key, stdin_eof, fibVars, max_iterations, available_functions, turn, user_input,
                   procVars, files, now, histVars>>

\* main, lines 6-15: LLMExecutor(api_key, max_iterations) is constructed.
Startup ==
    /\ shell = "start"
    /\ ~MissingKey(api_key)
    /\ \E k \in 0..MaxK : max_iterations' = k
    /\ available_functions' = GetAvailableFunctions
    /\ lastPrint' = "What would you like to explore today?"
    /\ shell' = "printed"
    /\ UNCHANGED <<api_key, stdin_eof, fibVars, turn, user_input, procVars, files, now, histVars>>

\* main, line 19: input("\nYou: ") writes the prompt and waits for a line.
Prompt ==
    /\ shell = "printed"
    /\ lastPrint' = "You: "
    /\ shell' = "prompt"
    /\ UNCHANGED <<api_key, stdin_eof, fibVars, max_iterations, available_functions, turn, user_input,
                   procVars, files, now, histVars>>

\* main, lines 19-22: quit.
ReadQuit ==
    /\ shell = "prompt"
    /\ ~stdin_eof
    /\ \E raw \in ShellInputs :
         /\ Lower(Strip(raw)) = "quit"
         /\ user_input' = Strip(raw)
    /\ lastPrint' = "Goodbye! Have a great day!"
    /\ shell' = "exited"
    /\ UNCHANGED <<api_key, stdin_eof, fibVars, max_iterations, available_functions, turn,
                   procVars, files, now, histVars>>

\* main, lines 19-24: empty input, continue.
ReadEmpty ==
    /\ shell = "prompt"
    /\ ~stdin_eof
    /\ \E raw \in ShellInputs :
         /\ Lower(Strip(raw)) # "quit"
         /\ Strip(raw) = ""
         /\ user_input' = Strip(raw)
    /\ lastPrint' = "You: "
    /\ UNCHANGED <<api_key, stdin_eof, fibVars, shell, max_iterations, available_functions,
                   turn, procVars, files, now, histVars>>

\* Mutant: input() is called outside the try block, so its EOFError ends the
\* program.
ReadRaisesUncaught ==
    /\ shell = "prompt"
    /\ stdin_eof' = TRUE
    /\ lastPrint' = "Traceback: EOFError"
    /\ shell' = "exited"
    /\ UNCHANGED <<api_key, fibVars, max_iterations, available_functions, turn,
                   user_input, procVars, files, now, histVars>>

\* main, lines 19 and 29-31: the input stream is exhausted, input() raises
\* EOFError inside the try block; an exhausted stream stays exhausted.
ReadRaises ==
    /\ shell = "prompt"
    /\ stdin_eof' = TRUE
    /\ lastPrint' = "Oops! Something went wrong: EOFError"
    /\ shell' = IF CaughtByExcept("EOFError") THEN "printed" ELSE "exited"
    /\ UNCHANGED <<api_key, fibVars, max_iterations, available_functions, turn,
                   user_input, procVars, files, now, histVars>>

\* main, line 26, and process_user_input, lines 114-128: a turn begins.
ReadAndProcess ==
    /\ shell = "prompt"
    /\ ~stdin_eof
    /\ turn < MaxTurns
    /\ \E raw \in ShellInputs :
         /\ Lower(Strip(raw)) # "quit"
         /\ Strip(raw) # ""
         /\ user_input' = Strip(raw)
         /\ messages' = InitialMessages(Strip(raw))
    /\ shell' = "turn"
    /\ turn' = turn + 1
    /\ iteration_count' = 0
    /\ message' = Unbound
    /\ tool_results' = <<>>
    /\ idx' = 0
    /\ outcome' = NoOutcome
    /\ pc' = "while"
    /\ sent' = <<>>
    /\ received' = <<>>
    /\ executed' = <<>>
    /\ invoked' = <<>>
    /\ filesAtStart' = files
    /\ UNCHANGED <<api_key, stdin_eof, fibVars, lastPrint, max_iterations, available_functions, files, now>>

\* Mutant: the except clause removes what the failed turn wrote.
FilesRolledBack(fs, start) == start

\* The except clause of main, lines 29-31, prints and does nothing else: the
\* files are what the failed turn left.
FilesAfterCatch(fs, start) == fs

\* Leaving process_user_input: its locals are gone.
LocalsDropped ==
    /\ pc' = "idle"
    /\ messages' = <<>>
    /\ iteration_count' = 0
    /\ message' = Unbound
    /\ tool_results' = <<>>
    /\ idx' = 0
    /\ outcome' = NoOutcome
    /\ sent' = <<>>
    /\ received' = <<>>
    /\ executed' = <<>>
    /\ invoked' = <<>>
    /\ filesAtStart' = files'

\* main, line 27: the response is printed.
PrintResponse ==
    /\ shell = "turn"
    /\ pc = "returned"
    /\ lastPrint' = "Assistant: " \o outcome.tag
    /\ shell' = "printed"
    /\ UNCHANGED <<api_key, stdin_eof, fibVars, max_iterations, available_functions, turn, user_input,
                   files, now>>
    /\ LocalsDropped

\* main, lines 29-31: the exception is caught and reported.
CatchException ==
    /\ shell = "turn"
    /\ pc = "raised"
    /\ lastPrint' = "Oops! Something went wrong: " \o outcome.tag
    /\ shell' = IF CaughtByExcept(outcome.tag) THEN "printed" ELSE "exited"
    /\ files' = FilesAfterCatch(files, filesAtStart)
    /\ LocalsDropped
    /\ UNCHANGED <<api_key, stdin_eof, fibVars, max_iterations, available_functions, turn, user_input,
                   now>>

\* ---------------------------------------------------- process_user_input
\* lines 129-131: the loop test passes, the iteration is counted.
LoopEnter ==
    /\ pc = "while"
    /\ LoopContinues(iteration_count, max_iterations)
    /\ iteration_count' = NextIteration(iteration_count)
    /\ pc' = "create"
    /\ UNCHANGED <<shellVars, fibVars, messages, message, tool_results, idx, outcome,
                   files, now, histVars>>

\* lines 202-204: the loop test fails; the f-string reads message.
LoopExhausted ==
    /\ pc = "while"
    /\ ~LoopContinues(iteration_count, max_iterations)
    /\ IF message.bound
       THEN /\ outcome' = BudgetMessage(max_iterations, message)
            /\ pc' = "returned"
       ELSE /\ outcome' = Raised("UnboundLocalError", 204)
            /\ pc' = "raised"
    /\ UNCHANGED <<shellVars, fibVars, messages, iteration_count, message, tool_results, idx,
                   files, now, histVars>>

\* lines 134-152: the tool-enabled request is sent and answered.
Create ==
    /\ pc = "create"
    /\ Len(sent) < MaxRequests
    /\ sent' = Append(sent, Request(TRUE))
    /\ \E reply \in Replies :
         /\ message' = reply
         /\ received' = Append(received, reply)
         /\ IF NoToolCalls(reply)
            THEN /\ outcome' = Returned("content", 152, 0, reply.content)
                 /\ pc' = "returned"
                 /\ UNCHANGED <<tool_results, idx>>
            ELSE /\ pc' = "for"
                 /\ tool_results' = <<>>
                 /\ idx' = 1
                 /\ UNCHANGED outcome
    /\ UNCHANGED <<shellVars, fibVars, messages, iteration_count, files, now,
                   executed, invoked, filesAtStart>>

\* lines 142-144: the tool-enabled request raises.
CreateRaises ==
    /\ pc = "create"
    /\ Len(sent) < MaxRequests
    /\ sent' = Append(sent, Request(TRUE))
    /\ outcome' = Raised("APIError", 144)
    /\ pc' = "raised"
    /\ UNCHANGED <<shellVars, fibVars, messages, iteration_count, message, tool_results, idx,
                   files, now, received, executed, invoked, filesAtStart>>

\* lines 158-167: one pass of the for loop over message.tool_calls.
ExecToolCall ==
    /\ pc = "for"
    /\ idx <= Len(message.tool_calls)
    /\ LET tool_call == message.tool_calls[idx]
           r == ExecuteFunction(tool_call.name, files, now)
       IN /\ executed' = Append(executed, tool_call.id)
          /\ invoked' = IF r.invoked THEN Append(invoked, tool_call.name) ELSE invoked
          /\ files' = r.files
          /\ IF r.raised # ""
             THEN /\ outcome' = Raised(r.raised, r.line)
                  /\ pc' = "raised"
                  /\ UNCHANGED <<tool_results, idx>>
             ELSE /\ tool_results' =
                        Append(tool_results, [call |-> tool_call, result |-> r.result])
                  /\ idx' = idx + 1
                  /\ UNCHANGED <<outcome, pc>>
    /\ UNCHANGED <<shellVars, fibVars, messages, iteration_count, message, now,
                   sent, received, filesAtStart>>

\* lines 169-185 and 199-200: the for loop is over; the calls and their
\* results are appended, and message.content decides what follows.
AppendResults ==
    /\ pc = "for"
    /\ idx > Len(message.tool_calls)
    /\ messages' = messages \o AppendedMessages(tool_results)
    /\ pc' = IF NoContent(message) THEN "final" ELSE "while"
    /\ UNCHANGED <<shellVars, fibVars, iteration_count, message, tool_results, idx, outcome,
                   files, now, histVars>>

\* lines 186-194: the request without tools is sent and answered.
FinalCreate ==
    /\ pc = "final"
    /\ Len(sent) < MaxRequests
    /\ sent' = Append(sent, Request(FALSE))
    /\ \E c \in ReplyContents : outcome' = Returned("content", 194, 0, c)
    /\ pc' = "returned"
    /\ UNCHANGED <<shellVars, fibVars, messages, iteration_count, message, tool_results, idx,
                   files, now, received, executed, invoked, filesAtStart>>

\* lines 195-197: the request without tools raises.
FinalRaises ==
    /\ pc = "final"
    /\ Len(sent) < MaxRequests
    /\ sent' = Append(sent, Request(FALSE))
    /\ outcome' = Raised("APIError", 197)
    /\ pc' = "raised"
    /\ UNCHANGED <<shellVars, fibVars, messages, iteration_count, message, tool_results, idx,
                   files, now, received, executed, invoked, filesAtStart>>

\* ----------------------------------------------------------- environment
\* The wall clock advances while the program runs.
Tick ==
    /\ shell \in {"prompt", "turn"}
    /\ now < MaxTime
    /\ now' = now + 1
    /\ UNCHANGED <<shellVars, fibVars, procVars, files, histVars>>

\* ------------------------------------------------------- utils.fibonacci
mainVars == <<shellVars, procVars, files, now, histVars>>

\* Mutant: the appended term is twice the last one.
FibNextTermDoubles(seq) == 2 * seq[Len(seq)]

\* line 155: sequence[-1] + sequence[-2].
FibNextTerm(seq) == seq[Len(seq)] + seq[Len(seq) - 1]

\* lines 148-153: fibonacci(n) is called; the two early returns, or the loop
\* is reached with sequence = [0, 1].
FibCall ==
    /\ fib_pc = "idle"
    /\ \E n \in (0 - MaxFibN)..MaxFibN :
         /\ fib_n' = n
         /\ IF n <= 0
            THEN fib_result' = <<>> /\ fib_pc' = "returned" /\ sequence' = sequence
            ELSE IF n = 1
            THEN fib_result' = <<0>> /\ fib_pc' = "returned" /\ sequence' = sequence
            ELSE sequence' = <<0, 1>> /\ fib_pc' = "while" /\ fib_result' = fib_result
    /\ UNCHANGED mainVars

\* lines 154-155: the loop test passes and a term is appended.
FibAppend ==
    /\ fib_pc = "while"
    /\ Len(sequence) < fib_n
    /\ sequence' = Append(sequence, FibNextTerm(sequence))
    /\ UNCHANGED <<mainVars, fib_pc, fib_n, fib_result>>

\* lines 154 and 156: the loop test fails and sequence is returned.
FibReturn ==
    /\ fib_pc = "while"
    /\ ~(Len(sequence) < fib_n)
    /\ fib_result' = sequence
    /\ fib_pc' = "returned"
    /\ UNCHANGED <<mainVars, fib_n, sequence>>

FibNext == FibCall \/ FibAppend \/ FibReturn

\* fibonacci called on its own, as a tool call or a test calls it.
FibInit == Init /\ api_key = NoneVal

FibSpec == FibInit /\ [][FibNext]_vars

\* The steps of the program itself.
ProgramStep ==
    \/ StartupNoKey
    \/ Startup
    \/ Prompt
    \/ ReadQuit
    \/ ReadEmpty
    \/ ReadRaises
    \/ ReadAndProcess
    \/ PrintResponse
    \/ CatchException
    \/ LoopEnter
    \/ LoopExhausted
    \/ Create
    \/ CreateRaises
    \/ ExecToolCall
    \/ AppendResults
    \/ FinalCreate
    \/ FinalRaises

Next == ProgramStep \/ Tick

Spec == Init /\ [][Next]_vars

\* The steps of a running process_user_input.  The interpreter keeps running
\* a call it has entered, and every remote request and every tool execution
\* returns or raises: a step that can be taken is eventually taken.
ProcessStep ==
    \/ LoopEnter
    \/ LoopExhausted
    \/ Create
    \/ CreateRaises
    \/ ExecToolCall
    \/ AppendResults
    \/ FinalCreate
    \/ FinalRaises

\* Termination is checked with the clock left out: no step of the program
\* waits on it or reads it to decide what to do.
FairSpec == Init /\ [][ProgramStep]_vars /\ WF_vars(ProcessStep)

\* ------------------------------------------------------------ properties
Count(s, x) == Cardinality({i \in DOMAIN s : s[i] = x})

IsToolMessage(m) == m.role = "tool"

\* The call identifiers of the tool messages of a conversation, in order.
ToolIds(msgs) ==
    LET ts == SelectSeq(msgs, IsToolMessage)
    IN [i \in 1..Len(ts) |-> ts[i].tool_call_id]

Ids(calls) == [i \in 1..Len(calls) |-> calls[i].id]

\* The calls of the replies before the latest one.
EarlierCalls ==
    Flatten([i \in 1..(Len(received) - 1) |-> received[i].tool_calls])

ToolErrorLines == {91, 101}
ToolFailed == pc = "raised" /\ outcome.line \in ToolErrorLines

\* C1: at every point where the invocation is about to send a remote request
\* (the loop request at "create", the final-answer request at "final"), each
\* tool call of every reply received so far has been passed to
\* execute_function exactly once and is answered by exactly one tool message
\* of the conversation bearing its identifier; and no call is ever executed
\* twice.
C1_ExecutedOnceAnsweredOnce ==
    /\ \A i \in DOMAIN executed :
         /\ Count(executed, executed[i]) = 1
         /\ executed[i] \in Range(Ids(ReceivedCalls))
    /\ pc \in {"create", "final"} =>
         \A c \in Range(ReceivedCalls) :
            /\ Count(executed, c.id) = 1
            /\ Count(ToolIds(messages), c.id) = 1

\* A second loop request is about to be sent after a reply with two calls.
C1_Witness ==
    /\ pc = "create"
    /\ iteration_count = 2
    /\ Len(received) = 1
    /\ Len(received[1].tool_calls) = 2
    /\ Len(executed) = 2

\* C2 as stated: once the for loop over the N calls of a reply is left, by
\* whatever exit, the tool messages of the conversation are those of all the
\* calls received, in the order received.
C2_Original ==
    pc \in {"while", "create", "final", "returned", "raised"} =>
        ToolIds(messages) = Ids(ReceivedCalls)

\* C2 amended: when the N executions of a reply's calls all return, exactly
\* N tool messages are appended, the i-th bearing the i-th call's identifier;
\* while the calls are being executed, and when one of them raises, nothing
\* has been appended for that reply.
C2_ToolMessagesInOrder ==
    /\ pc \in {"while", "create", "final", "returned", "raised"} /\ ~ToolFailed =>
          ToolIds(messages) = Ids(ReceivedCalls)
    /\ pc = "for" \/ ToolFailed =>
          ToolIds(messages) = Ids(EarlierCalls)

\* Two calls were executed and answered in order, and in a second iteration
\* a call raised after one had returned.
C2_Witness ==
    /\ ToolFailed
    /\ Len(received) = 2
    /\ Len(ToolIds(messages)) = 2
    /\ Len(received[2].tool_calls) = 2
    /\ Len(tool_results) = 1

\* C3: if the first reply has no tool calls, process_user_input has returned
\* that reply's content from line 152 in the first iteration, after exactly
\* one request, with no tool executed and the conversation as initialised.
C3_DirectAnswer ==
    (received # <<>> /\ received[1].tool_calls = <<>>) =>
        /\ pc = "returned"
        /\ outcome = Returned("content", 152, 0, received[1].content)
        /\ iteration_count = 1
        /\ Len(sent) = 1
        /\ sent[1].tools
        /\ executed = <<>>
        /\ invoked = <<>>
        /\ messages = << Msg("system", SystemPrompt, <<>>, NoId, ""),
                         Msg("user", user_input, <<>>, NoId, "") >>

C3_Witness ==
    /\ pc = "returned"
    /\ Len(received) = 1
    /\ received[1].tool_calls = <<>>
    /\ outcome.text = "partial"

\* The first reply asked for tool calls and carried no text.
FirstReplyToolsOnly ==
    /\ received # <<>>
    /\ received[1].tool_calls # <<>>
    /\ received[1].content \in {NoneVal, ""}

\* C4 as stated: with budget K, when the first reply asks for tool calls
\* without text, the invocation returns the content of one extra request
\* sent without tools, and the iteration count has not reached K.
C4_Original ==
    (FirstReplyToolsOnly /\ pc = "returned") =>
        /\ Len(sent) = 2
        /\ sent[1].tools /\ ~sent[2].tools
        /\ outcome.kind = "return" /\ outcome.line = 194
        /\ iteration_count < max_iterations

\* C4 amended: in that scenario the loop never enters a second iteration and
\* sends no second tool-enabled request; if the calls all return and the
\* final request is answered, it returns the content of exactly one extra
\* request sent without tools.  The iteration count stays at 1, which is
\* below K only when K >= 2.
C4_FinalAnswerAfterFirstIteration ==
    FirstReplyToolsOnly =>
        /\ iteration_count = 1
        /\ Len(received) = 1
        /\ Len(sent) <= 2
        /\ \A i \in DOMAIN sent : sent[i].tools <=> i = 1
        /\ pc \in {"for", "final", "returned", "raised"}
        /\ pc = "returned" =>
              /\ Len(sent) = 2
              /\ outcome.kind = "return" /\ outcome.line = 194
              /\ outcome.tag = "content"
        /\ max_iterations >= 2 => iteration_count < max_iterations

\* With budget 2 and an empty-string content, the final answer was returned.
C4_Witness ==
    /\ FirstReplyToolsOnly
    /\ received[1].content = ""
    /\ max_iterations = 2
    /\ pc = "returned"
    /\ Len(sent) = 2

\* C5: whenever process_user_input leaves through line 204, the budget being
\* exhausted, it returns the budget-exceeded message embedding the content of
\* the last assistant reply.
C5_BudgetMessageReturned ==
    outcome.line = 204 =>
        /\ outcome.kind = "return"
        /\ outcome.tag = "budget"
        /\ outcome.k = max_iterations
        /\ outcome.text = message.content

\* The step passes the call at idx to execute_function.
ExecutesCurrentCall ==
    /\ pc = "for"
    /\ idx <= Len(message.tool_calls)
    /\ executed' = Append(executed, message.tool_calls[idx].id)

\* What the call of `name` raises on its own: "" when it returns.
ErrorOf(name) ==
    IF name \notin available_functions THEN "ValueError"
    ELSE CallFunction(name, files, now).raised

\* C6: a tool execution that raises ends the invocation with that very error,
\* a remote request that raises ends it with the API's error, and once the
\* invocation has raised it sends no request and executes no call any more:
\* the next thing that happens to the error is that the caller receives it.
C6_ErrorsPropagate ==
    [][ /\ (ExecutesCurrentCall /\ ErrorOf(message.tool_calls[idx].name) # "") =>
              /\ pc' = "raised"
              /\ outcome'.kind = "raise"
              /\ outcome'.tag = ErrorOf(message.tool_calls[idx].name)
        /\ (pc \in {"create", "final"} /\ pc' = "raised") =>
              /\ outcome'.kind = "raise" /\ outcome'.tag = "APIError"
              /\ Len(sent') = Len(sent) + 1
        /\ pc = "raised" =>
              /\ pc' \in {"raised", "idle"}
              /\ Len(sent') <= Len(sent)
              /\ Len(executed') <= Len(executed)
              /\ Len(invoked') <= Len(invoked)
              /\ files' = files
              /\ pc' = "raised" => outcome' = outcome
              /\ pc' = "idle" =>
                    lastPrint' = "Oops! Something went wrong: " \o outcome.tag
      ]_vars

\* A call raised in the second iteration, after an earlier call had returned.
C6_Witness ==
    /\ pc = "raised"
    /\ outcome.tag = "TypeError"
    /\ Len(sent) = 2
    /\ Len(executed) = 2

\* C7: execute_function on a name that is not in the registry raises the
\* not-found ValueError of line 91, enters no function body, and changes
\* neither the registry, the files nor the conversation.
C7_UnknownToolNoSideEffect ==
    [][ (ExecutesCurrentCall
            /\ message.tool_calls[idx].name \notin available_functions) =>
          /\ outcome' = Raised("ValueError", 91)
          /\ pc' = "raised"
          /\ invoked' = invoked
          /\ files' = files
          /\ available_functions' = available_functions
          /\ messages' = messages
          /\ tool_results' = tool_results
      ]_vars

\* An unknown name was looked up after a file-writing call had run.
C7_Witness ==
    /\ pc = "raised"
    /\ outcome = Raised("ValueError", 91)
    /\ Len(executed) = 2
    /\ Len(invoked) = 1
    /\ files # filesAtStart

InvocationRunning == pc \in {"while", "create", "for", "final"}

InvocationEnded ==
    \/ pc = "returned" /\ outcome.kind = "return"
          /\ outcome.tag = "content" /\ outcome.line \in {152, 194}
    \/ pc = "returned" /\ outcome.kind = "return"
          /\ outcome.tag = "budget" /\ outcome.line = 204
    \/ pc = "raised" /\ outcome.kind = "raise"

\* C8: whatever the model replies, a running process_user_input ends: with a
\* text answer (line 152 or 194), with the budget-exceeded message, or with
\* an exception that leaves the function.
C8_Terminates == InvocationRunning ~> InvocationEnded

\* The whole budget of two iterations was used before the invocation ended.
C8_Witness ==
    /\ pc = "returned"
    /\ outcome.tag = "budget"
    /\ max_iterations = 2
    /\ iteration_count = 2
    /\ Len(sent) = 2

FreshConversation(input) ==
    << Msg("system", SystemPrompt, <<>>, NoId, ""),
       Msg("user", input, <<>>, NoId, "") >>

\* C9: the first request of an invocation carries exactly the system message
\* and the current user message, with the tools enabled; and every message of
\* every request of the invocation was produced in it: its user message is
\* the current input, and each call identifier it bears is one received in
\* this invocation, none of an earlier one.
C9_ConversationOwned ==
    /\ sent # <<>> =>
          sent[1] = [messages |-> FreshConversation(user_input), tools |-> TRUE]
    /\ \A i \in DOMAIN sent : \A j \in DOMAIN sent[i].messages :
          LET m == sent[i].messages[j]
          IN /\ m.role = "system" <=> j = 1
             /\ m.role = "user" <=> j = 2
             /\ m.role = "user" => m.content = user_input
             /\ m.role = "tool" =>
                   /\ m.tool_call_id \in Range(Ids(ReceivedCalls))
                   /\ m.tool_call_id[1] = turn
             /\ \A k \in DOMAIN m.tool_calls :
                   /\ m.tool_calls[k].id \in Range(Ids(ReceivedCalls))
                   /\ m.tool_calls[k].id[1] = turn

\* A second invocation, after one that ran a tool, sends its second request.
C9_Witness ==
    /\ turn = 2
    /\ filesAtStart # {}
    /\ Len(sent) = 2
    /\ Len(sent[2].messages) = 4

RequestCapNeverBinds ==
    pc \in {"create", "final"} => Len(sent) < MaxRequests

\* The shell has ended without a turn being under way.
EndsOutsideTurn == (shell # "exited" /\ shell' = "exited") => shell # "turn"

\* C11: an exception raised by a turn is always within reach of the except
\* clause of the shell (the shell is in the turn whenever the invocation has
\* raised); the only step the program takes from there reports the exception
\* and leaves the turn with the session open; after any report the shell's
\* only step is to prompt again; and the session never ends in a turn.
C11_FailedTurnCaught ==
    [][ /\ pc = "raised" => shell = "turn"
        /\ (pc = "raised" /\ <<shellVars, procVars>>' # <<shellVars, procVars>>) =>
              /\ shell' = "printed"
              /\ lastPrint' = "Oops! Something went wrong: " \o outcome.tag
              /\ pc' = "idle"
        /\ (shell = "printed" /\ shellVars' # shellVars) =>
              /\ shell' = "prompt"
              /\ lastPrint' = "You: "
        /\ EndsOutsideTurn
      ]_vars

\* The second turn failed in a tool call, was reported, and the shell is
\* about to prompt for the third input.
C11_Witness ==
    /\ shell = "printed"
    /\ turn = 2
    /\ lastPrint = "Oops! Something went wrong: TypeError"

\* The inputs that read as quit, in the letter cases of ShellInputs.
QuitWords == {"quit", "QUIT"}

\* C12: the session leaves the prompt for its end only on reading quit, in
\* either letter case, with the goodbye printed, no turn counted, no
\* invocation begun and no request sent; a turn begins only on an input that,
\* trimmed, is neither empty nor quit in any case; and a step that stays at
\* the prompt, as the read of an empty line does, counts no turn, begins no
\* invocation and sends no request.
C12_QuitAndEmpty ==
    [][ /\ (shell = "prompt" /\ shell' = "exited") =>
              /\ user_input' \in QuitWords
              /\ lastPrint' = "Goodbye! Have a great day!"
              /\ turn' = turn
              /\ pc' = "idle" /\ sent' = <<>>
              /\ UNCHANGED <<procVars, histVars, files>>
        /\ (shell = "prompt" /\ shell' = "turn") =>
              /\ user_input' \notin QuitWords \cup {"", "  "}
              /\ turn' = turn + 1
        /\ (shell = "prompt" /\ shell' = "prompt") =>
              /\ user_input' \in {user_input, ""}
              /\ lastPrint' = "You: "
              /\ turn' = turn
              /\ pc' = "idle" /\ sent' = <<>>
              /\ UNCHANGED <<procVars, histVars, files>>
        /\ (shell = "prompt" /\ user_input' # user_input) =>
              \/ user_input' \in QuitWords /\ shell' = "exited"
              \/ user_input' = "" /\ shell' = "prompt"
              \/ user_input' \notin QuitWords \cup {""} /\ shell' = "turn"
      ]_vars

\* QUIT was read after one turn: the session is over with the one turn
\* counted.
C12_Witness ==
    /\ shell = "exited"
    /\ user_input = "QUIT"
    /\ turn = 1
    /\ lastPrint = "Goodbye! Have a great day!"

\* An empty line was read after a turn: the shell is at the prompt again.
EmptyLineRead ==
    shell = "prompt" /\ user_input = "" /\ turn = 1 /\ pc = "idle"

\* C13: when the credential is absent (unset, or set to the empty string) the
\* program does nothing but report it and end: no executor is constructed
\* (no registry, no budget), no prompt is written and no line read, no turn
\* begins and no request is sent; once it has ended, the last thing printed
\* is the error message.
C13_NoKeyNoAction ==
    api_key \in {NoneVal, ""} =>
        /\ shell \in {"start", "exited"}
        /\ shell = "exited" =>
              lastPrint = "Error: Please set your OPENAI_API_KEY environment variable"
        /\ shell = "start" => lastPrint = ""
        /\ available_functions = {}
        /\ turn = 0
        /\ user_input = ""
        /\ ~stdin_eof
        /\ pc = "idle"
        /\ messages = <<>>
        /\ sent = <<>>
        /\ executed = <<>>
        /\ files = {}

\* The variable was unset: the program has reported it and ended.
C13_Witness ==
    /\ api_key = NoneVal
    /\ shell = "exited"
    /\ lastPrint = "Error: Please set your OPENAI_API_KEY environment variable"

\* C14: every save of an image goes to a path no earlier save went to, so the
\* image directory holds one more file for each draw_sine_wave that has run:
\* the files of the invocation are those it began with and one new file per
\* draw_sine_wave executed in it.
C14_SavesNeverCollide ==
    Cardinality(files) =
        Cardinality(filesAtStart) + Count(invoked, "draw_sine_wave")

\* C15: whenever fibonacci(n) has returned, for n in -MaxFibN..MaxFibN, the
\* list returned is empty when n <= 0, is [0] when n = 1, and for n >= 2 has
\* exactly n elements, begins 0, 1 and has every later element equal to the
\* sum of the two before it; fibonacci(5) is [0, 1, 1, 2, 3].
C15_FirstNFibonacci ==
    fib_pc = "returned" =>
        /\ fib_n <= 0 => fib_result = <<>>
        /\ fib_n = 1 => fib_result = <<0>>
        /\ fib_n >= 2 =>
              /\ Len(fib_result) = fib_n
              /\ fib_result[1] = 0
              /\ fib_result[2] = 1
              /\ \A i \in 3..fib_n :
                    fib_result[i] = fib_result[i - 1] + fib_result[i - 2]
        /\ fib_n = 5 => fib_result = <<0, 1, 1, 2, 3>>

\* fibonacci(MaxFibN) has returned, from the loop.
C15_Witness ==
    /\ fib_pc = "returned"
    /\ fib_n = MaxFibN
    /\ Len(fib_result) = MaxFibN
    /\ fib_result[7] = 8

\* A reply that carries tool calls together with text.
TextWithCalls(m) == m.tool_calls # <<>> /\ m.content = "partial"

\* C16: a reply with both tool calls and text is never followed by the
\* request without tools: while it is the latest reply the invocation is not
\* at the final-answer request and has not ended by it; once its calls are
\* executed and appended, the loop test comes next, and with budget left the
\* next request is sent with the tools, over the conversation extended by
\* the assistant message and one tool message per call.
C16_TextWithCallsContinues ==
    /\ (message.bound /\ TextWithCalls(message)) =>
          /\ pc \in {"for", "while", "create", "returned", "raised"}
          /\ outcome.line \notin {194, 197}
          /\ (pc = "while" /\ iteration_count < max_iterations) => ENABLED LoopEnter
    /\ \A i \in 1..Len(received) :
          (TextWithCalls(received[i]) /\ Len(sent) > i) =>
              /\ sent[i + 1].tools
              /\ Len(sent[i + 1].messages) =
                    Len(sent[i].messages) + 1 + Len(received[i].tool_calls)

\* The first reply carried two tool calls and text; the second request has
\* been sent, with the tools.
C16_Witness ==
    /\ Len(sent) = 2
    /\ sent[2].tools
    /\ TextWithCalls(received[1])
    /\ Len(received[1].tool_calls) = 2
    /\ iteration_count = 2

\* The sequence s is the sequence p followed by something.
IsPrefix(p, s) == Len(p) <= Len(s) /\ SubSeq(s, 1, Len(p)) = p

\* cur is prev followed by one assistant message listing calls and one tool
\* message per call, in order.
ExtendedByIteration(prev, cur, calls) ==
    /\ Len(cur) = Len(prev) + 1 + Len(calls)
    /\ IsPrefix(prev, cur)
    /\ cur[Len(prev) + 1].role = "assistant"
    /\ cur[Len(prev) + 1].tool_calls = calls
    /\ \A j \in 1..Len(calls) :
          /\ cur[Len(prev) + 1 + j].role = "tool"
          /\ cur[Len(prev) + 1 + j].tool_call_id = calls[j].id
          /\ cur[Len(prev) + 1 + j].name = calls[j].name

\* C17: the message list of every request begins with the system message and
\* the user message of the turn; the list of every request after the first
\* is the list of the request before it, kept whole, followed by exactly one
\* assistant message listing all the calls of the reply in between and one
\* tool message per call; and the conversation as it stands begins with the
\* list of the latest request.
C17_ConversationAppendOnly ==
    /\ \A i \in 1..Len(sent) :
          /\ Len(sent[i].messages) >= 2
          /\ sent[i].messages[1].role = "system"
          /\ sent[i].messages[2].role = "user"
          /\ sent[i].messages[2].content = user_input
    /\ \A i \in 2..Len(sent) :
          /\ ExtendedByIteration(sent[i - 1].messages, sent[i].messages,
                                 received[i - 1].tool_calls)
          /\ Len(sent[i].messages) > Len(sent[i - 1].messages)
    /\ Len(sent) >= 1 => IsPrefix(sent[Len(sent)].messages, messages)

\* Three requests have been sent in one invocation, the first reply having
\* carried two calls and the second one.
C17_Witness ==
    /\ Len(sent) = 3
    /\ Len(sent[2].messages) = 5
    /\ Len(sent[3].messages) = 7

\* The calls passed to execute_function so far in this invocation.
ExecutedCalls == SubSeq(ReceivedCalls, 1, Len(executed))

\* C18: every call of a registered tool that was passed to execute_function
\* with the arguments its schema advertises as required (numbers, for
\* calculate_average) was bound and entered the body of its function, and no
\* invocation has ended in the TypeError of a failed binding.
C18_SchemaConformingCallsBind ==
    /\ Len(invoked) =
          Cardinality({i \in DOMAIN ExecutedCalls :
                          ExecutedCalls[i].name \in available_functions})
    /\ ~(pc = "raised" /\ outcome.tag = "TypeError")

\* The positions in sent of the requests with and without the tools.
ToolRequests == {i \in DOMAIN sent : sent[i].tools}
FinalRequests == {i \in DOMAIN sent : ~sent[i].tools}

\* C19: with budget K = max_iterations an invocation sends at most K requests
\* with the tools, as many as iterations counted, and at most one without, so
\* at most K + 1 in all; a request without tools is the last one sent and the
\* invocation ends with it; and when the budget-exceeded message is returned
\* exactly K requests went out, all with the tools, each answered by a reply
\* carrying both tool calls and text, the message embedding K and the text
\* of the last reply.
C19_RequestBudget ==
    /\ Cardinality(ToolRequests) <= max_iterations
    /\ Cardinality(ToolRequests) <= iteration_count
    /\ iteration_count <= max_iterations
    /\ Cardinality(FinalRequests) <= 1
    /\ Len(sent) <= max_iterations + 1
    /\ \A i \in FinalRequests :
          /\ i = Len(sent)
          /\ pc \in {"returned", "raised"}
          /\ outcome.line \in {194, 197}
    /\ (pc = "returned" /\ outcome.tag = "budget") =>
          /\ max_iterations >= 1
          /\ Len(sent) = max_iterations
          /\ FinalRequests = {}
          /\ Len(received) = max_iterations
          /\ \A i \in DOMAIN received :
                /\ received[i].tool_calls # <<>>
                /\ received[i].content \notin {NoneVal, ""}
          /\ outcome.k = max_iterations
          /\ outcome.text = received[Len(received)].content

\* The budget of two iterations is used up: the budget-exceeded message is
\* returned after two requests with the tools.
C19_Witness ==
    /\ pc = "returned"
    /\ outcome.tag = "budget"
    /\ max_iterations = 2
    /\ Len(sent) = 2

\* The most an invocation sends: K requests with the tools and one without.
MostRequestsSent ==
    max_iterations = 2 /\ Len(sent) = 3 /\ Cardinality(FinalRequests) = 1

\* C20: a session that has begun (the credential was present) ends only by
\* a read of quit from a stream that is not exhausted; a read that raises
\* end-of-input is reported as a turn error is, counts no turn, begins no
\* invocation and leads to the prompt again; and once the stream is exhausted
\* it stays so, the shell only alternates between the report and the prompt,
\* always has a step to take and never ends.
C20_EndsOnlyOnQuit ==
    [][ /\ (shell # "exited" /\ shell' = "exited" /\ api_key \notin {NoneVal, ""}) =>
              /\ shell = "prompt"
              /\ ~stdin_eof /\ ~stdin_eof'
              /\ user_input' \in QuitWords
        /\ (shell = "prompt" /\ stdin_eof' /\ shellVars' # shellVars) =>
              /\ shell' = "printed"
              /\ lastPrint' = "Oops! Something went wrong: EOFError"
              /\ turn' = turn
              /\ user_input' = user_input
              /\ pc' = "idle" /\ sent' = <<>>
        /\ stdin_eof =>
              /\ stdin_eof'
              /\ shell \in {"printed", "prompt"}
              /\ shell' \in {"printed", "prompt"}
              /\ ENABLED (Prompt \/ ReadRaises)
              /\ UNCHANGED <<turn, user_input, procVars, histVars, files>>
      ]_vars

\* After a turn the stream ran out: the error was reported and the shell is
\* at the prompt once more.
C20_Witness ==
    /\ stdin_eof
    /\ shell = "prompt"
    /\ turn = 1
    /\ lastPrint = "You: "

=============================================================================
